---------------------------- MODULE Spec2Model ----------------------------
(***************************************************************************)
(* LogPMDatasetGenerator: the matching engine of src/src/lib.rs            *)
(* (module `matching`), used by src/src/main.rs.                           *)
(*                                                                         *)
(*   - match_regex, the pure function (bank, line) -> outcome;             *)
(*   - the worker pool: one spmc fan-out queue of Requests, W worker       *)
(*     threads, one mpsc fan-in queue of Responses, the controller         *)
(*     (ThreadPoolInput: submit / end_of_stream / join) and the result     *)
(*     iterator (ThreadPoolOutputIter::next), under any caller and under   *)
(*     a caller that keeps the shutdown protocol;                          *)
(*   - main: the dispatcher loop with its deduplication, the writer        *)
(*     thread and the shutdown;                                            *)
(*   - the template index of a Response for banks wider than a u16.        *)
(*                                                                         *)
(* Indices are 0-based where the code's are (template index, byte offsets  *)
(* of capture spans); TLA+ sequences stay 1-based underneath.              *)
(***************************************************************************)
EXTENDS Integers, Sequences, FiniteSets, TLC

(***************************************************************************)
(* Bounds of the model.                                                    *)
(***************************************************************************)
MaxLen == 3          \* longest line given to match_regex
MaxBank == 3         \* largest template bank given to match_regex
MaxWorkers == 2      \* largest worker_count given to start_thread_pool
MaxSubmit == 2       \* most submit calls of one run
MaxEndCalls == 2     \* most calls of next() answered by None
MaxEos == 2          \* most calls of end_of_stream of one run
MaxCrawl == 3        \* most messages the extractor of main yields in one run

(***************************************************************************)
(* Lines and templates.  A line is a sequence of one-byte characters.  A   *)
(* template is the pattern between the anchors ^ and $ that load_regex     *)
(* adds: a sequence of tokens of a small regular-expression language.      *)
(*   lit   c        the character c             a      (a)                 *)
(*   opt   c        c, optional, greedy         a?     (a)?                *)
(*   plus  class    one or more, greedy         \d+    (\d+)   \w+  (\w+)  *)
(*   nest  class    a group of one or more, its first character a group    *)
(* cap says whether the token is a capture group.                          *)
(***************************************************************************)
Chars == {"a", "1"}
Digit == {"1"}
Word == {"a", "1"}

Lit(c, cap) == [kind |-> "lit", set |-> {c}, cap |-> cap]
Opt(c, cap) == [kind |-> "opt", set |-> {c}, cap |-> cap]
Plus(s, cap) == [kind |-> "plus", set |-> s, cap |-> cap]
Nest(s) == [kind |-> "nest", set |-> s, cap |-> TRUE]

TemplatePool ==
    { <<Lit("a", FALSE), Plus(Digit, TRUE)>>,      \* a(\d+)
      <<Lit("a", FALSE), Plus(Digit, FALSE)>>,     \* a\d+
      <<Opt("a", TRUE), Plus(Digit, TRUE)>>,       \* (a)?(\d+)
      <<Plus(Word, TRUE), Plus(Digit, TRUE)>>,     \* (\w+)(\d+)
      <<Nest(Word)>>,                              \* ((\w)\w{0,})
      <<Opt("a", TRUE), Lit("1", FALSE), Plus(Digit, TRUE)>>,   \* (a)?1(\d+)
      <<>> }                                       \* the empty pattern

RECURSIVE SeqsUpTo(_, _)
SeqsUpTo(S, n) ==
    IF n = 0 THEN {<<>>}
    ELSE LET shorter == SeqsUpTo(S, n - 1)
         IN  shorter \cup {Append(s, x) : s \in {t \in shorter : Len(t) = n - 1}, x \in S}

Lines == SeqsUpTo(Chars, MaxLen)
Banks == SeqsUpTo(TemplatePool, MaxBank)

(***************************************************************************)
(* The regex crate, as far as match_regex uses it: Regex::captures on an   *)
(* anchored pattern.  The answer is either no match, or the list of the    *)
(* capture groups 1..n in the order of their opening parenthesis, each     *)
(* <<start, end>> (0-based, end exclusive) or None for a group that did    *)
(* not take part in the match.  Leftmost, greedy, backtracking priority.   *)
(***************************************************************************)
None == <<>>
NoCaps == [ok |-> FALSE, caps |-> <<>>]
Caps(c) == [ok |-> TRUE, caps |-> c]

\* the length of the longest run of characters of set in line from 1-based pos
RECURSIVE RunLen(_, _, _)
RunLen(line, pos, set) ==
    IF pos <= Len(line) /\ line[pos] \in set THEN 1 + RunLen(line, pos + 1, set) ELSE 0

\* the groups a token opens when it consumes n characters from 1-based pos
GroupsOf(tok, pos, n) ==
    IF ~tok.cap THEN <<>>
    ELSE IF tok.kind = "nest" THEN << <<pos - 1, pos - 1 + n>>, <<pos - 1, pos>> >>
    ELSE IF n = 0 THEN <<None>>
    ELSE << <<pos - 1, pos - 1 + n>> >>

RECURSIVE MatchAt(_, _, _, _)
MatchAt(tpl, k, line, pos) ==
    IF k > Len(tpl)
    THEN IF pos = Len(line) + 1 THEN Caps(<<>>) ELSE NoCaps
    ELSE
      LET tok == tpl[k]
          run == RunLen(line, pos, tok.set)
          lens == CASE tok.kind = "lit" -> IF run >= 1 THEN {1} ELSE {}
                    [] tok.kind = "opt" -> IF run >= 1 THEN {0, 1} ELSE {0}
                    [] OTHER -> 1..run
          good == {n \in lens : MatchAt(tpl, k + 1, line, pos + n).ok}
      IN  IF good = {} THEN NoCaps
          ELSE LET n == CHOOSE x \in good : \A y \in good : y <= x
               IN  Caps(GroupsOf(tok, pos, n) \o MatchAt(tpl, k + 1, line, pos + n).caps)

captures(re, line) == MatchAt(re, 1, line, 1)
is_match(re, line) == captures(re, line).ok

(***************************************************************************)
(* match_regex (lib.rs 137-160).                                           *)
(***************************************************************************)
Repeat(c, n) == [i \in 1..n |-> c]

\* String::replace_range(range, with): the bytes of range give way to `with`
replace_range(s, range, with) ==
    SubSeq(s, 1, range[1]) \o with \o SubSeq(s, range[2] + 1, Len(s))

\* the loop left at the first group that took no part in the match
RECURSIVE MarkCapsBreak(_, _, _)
MarkCapsBreak(mask, caps, i) ==
    IF i > Len(caps) \/ caps[i] = None THEN mask
    ELSE MarkCapsBreak(replace_range(mask, caps[i], Repeat("1", caps[i][2] - caps[i][1])),
                       caps, i + 1)

\* lib.rs 149-153: for i in 1..caps.len() { if let Some(mat) = caps.get(i) ... }
RECURSIVE MarkCaps(_, _, _)
MarkCaps(mask, caps, i) ==
    IF i > Len(caps) THEN mask
    ELSE IF caps[i] = None THEN MarkCaps(mask, caps, i + 1)
    ELSE MarkCaps(replace_range(mask, caps[i], Repeat("1", caps[i][2] - caps[i][1])),
                  caps, i + 1)

Ok(m, mask) == [ok |-> TRUE, idx |-> m, msk |-> mask, err |-> "", named |-> <<>>]
ErrDouble(first, second) ==
    [ok |-> FALSE, idx |-> -1, msk |-> <<>>, err |-> "double match", named |-> <<first, second>>]
ErrNoMatch ==
    [ok |-> FALSE, idx |-> -1, msk |-> <<>>, err |-> "No match found", named |-> <<>>]

\* first match wins: the scan credits the first matching template
RECURSIVE ScanFirstWins(_, _, _, _, _)
ScanFirstWins(v, line, i, m, mask) ==
    IF i > Len(v) THEN ErrNoMatch
    ELSE IF ~is_match(v[i], line) THEN ScanFirstWins(v, line, i + 1, m, mask)
    ELSE Ok(i - 1, MarkCaps(mask, captures(v[i], line).caps, 1))

\* the loop of lib.rs 140-154 from the 1-based position i with the locals m, mask
RECURSIVE ScanFrom(_, _, _, _, _)
ScanFrom(v, line, i, m, mask) ==
    IF i > Len(v)
    THEN IF m # -1 THEN Ok(m, mask) ELSE ErrNoMatch
    ELSE IF ~is_match(v[i], line) THEN ScanFrom(v, line, i + 1, m, mask)
    ELSE IF m # -1 THEN ErrDouble(m, i - 1)
    ELSE ScanFrom(v, line, i + 1, i - 1, MarkCaps(mask, captures(v[i], line).caps, 1))

\* the scan entered with a candidate already recorded (m = 0 for m = -1)
MatchRegexCandidate(v, line) == ScanFrom(v, line, 1, 0, Repeat("0", Len(line)))

\* lib.rs 138-139: let mut m: isize = -1; let mut mask = "0".repeat(line.len())
match_regex(v, line) == ScanFrom(v, line, 1, -1, Repeat("0", Len(line)))


(***************************************************************************)
(* State.                                                                  *)
(***************************************************************************)
VARIABLES
    regex_vec,      \* the template bank (start_thread_pool's regex_vec; match_regex's v)
    worker_count,   \* start_thread_pool's worker_count
    join_handles,   \* ThreadPoolInput.join_handles: the workers, in spawn order
    input_open,     \* ThreadPoolInput.input, the spmc Sender, is alive
    i_receivers,    \* live handles of the spmc Receiver (i_rx and its clones)
    inq,            \* the fan-out queue: Requests sent and not yet received
    o_senders,      \* live handles of the mpsc Sender (o_tx and its clones)
    outq,           \* the fan-in queue: Responses sent and not yet received
    wpc,            \* per worker: "recv", "parse", "exited", "panicked"
    wreq,           \* per worker: the Request it received and is handling
    wlog,           \* per worker: the ids of the Requests it received (0: EndOfStream)
    ctl_pc,         \* the thread that owns ThreadPoolInput: where it is
    eos_k,          \* end_of_stream: sends done by the running call
    join_j,         \* join: 1-based position in join_handles
    panic_msg,      \* the message of the controller's panic, "" if none
    submitted,      \* the messages submit has sent, in order; the id is the position
    sub_before_eos, \* how many of them were sent before the first end_of_stream
    eos_calls,      \* calls of end_of_stream so far
    misuse,         \* the violations of the shutdown protocol so far
    yielded,        \* the Responses next() has returned, in order
    it_ends,        \* how many times next() has returned None
    errlog,         \* the error! lines of the workers: the ids of the dropped messages
    line,           \* match_regex called on its own: the line
    outcome,        \* match_regex called on its own: the results of the calls
    loglines,       \* main: the messages load_loglines and message_extractor yield
    cursor,         \* main: how many of them the for loop has taken
    message_set,    \* main: message_set
    crawled_lines,  \* main: crawled_lines
    distributed_lines,  \* main: distributed_lines
    main_pc,        \* main: where the main thread is
    filler_count    \* wide banks: the templates that match no line ahead of regex_vec

vars == <<regex_vec, worker_count, join_handles, input_open, i_receivers, inq,
          o_senders, outq, wpc, wreq, wlog, ctl_pc, eos_k, join_j, panic_msg,
          submitted, sub_before_eos, eos_calls, misuse, yielded, it_ends, errlog,
          line, outcome, loglines, cursor, message_set, crawled_lines,
          distributed_lines, main_pc, filler_count>>

poolVars == <<worker_count, join_handles, input_open, i_receivers, inq,
              o_senders, outq, wpc, wreq, wlog, ctl_pc, eos_k, join_j, panic_msg,
              submitted, sub_before_eos, eos_calls, misuse, yielded, it_ends, errlog>>

mainVars == <<loglines, cursor, message_set, crawled_lines, distributed_lines, main_pc>>

\* main has not been entered
MainIdle ==
    /\ loglines = <<>> /\ cursor = 0 /\ message_set = {}
    /\ crawled_lines = 0 /\ distributed_lines = 0 /\ main_pc = "none"

(***************************************************************************)
(* match_regex on its own: every bank and line of the bounds.              *)
(***************************************************************************)
PoolIdle ==
    /\ worker_count = 0 /\ join_handles = <<>> /\ input_open = FALSE
    /\ i_receivers = 0 /\ inq = <<>> /\ o_senders = 0 /\ outq = <<>>
    /\ wpc = <<>> /\ wreq = <<>> /\ wlog = <<>>
    /\ ctl_pc = "new" /\ eos_k = 0 /\ join_j = 0 /\ panic_msg = ""
    /\ submitted = <<>> /\ sub_before_eos = 0 /\ eos_calls = 0 /\ misuse = {}
    /\ yielded = <<>> /\ it_ends = 0 /\ errlog = <<>>

InitMatch ==
    /\ regex_vec \in Banks
    /\ filler_count = 0
    /\ line \in Lines
    /\ outcome = <<>>
    /\ PoolIdle
    /\ MainIdle

MatchCall ==
    /\ outcome = <<>>
    /\ outcome' = <<match_regex(regex_vec, line)>>
    /\ UNCHANGED <<regex_vec, line, filler_count>>
    /\ UNCHANGED poolVars
    /\ UNCHANGED mainVars

NextMatch == MatchCall

SpecMatch == InitMatch /\ [][NextMatch]_vars

\* the templates of the bank that fully match the line, by 0-based index
Matching(v, l) == {i \in 0..(Len(v) - 1) : is_match(v[i + 1], l)}

\* the positions (0-based) inside some capture span of template re on the line
SpanUnion(re, l) ==
    LET c == captures(re, l).caps
    IN  {p \in 0..(Len(l) - 1) : \E g \in 1..Len(c) : c[g] # None /\ c[g][1] <= p /\ p < c[g][2]}

(***************************************************************************)
(* Claims about match_regex (checked under SpecMatch).                     *)
(***************************************************************************)
Called == outcome # <<>>
Result == outcome[1]
Least(S) == CHOOSE x \in S : \A y \in S : x <= y

\* C1: when exactly one template of the bank fully matches the line,
\* match_regex returns Ok with that template's index and a mask as long as
\* the line whose '1' positions are exactly the union of the spans of the
\* template's participating capture groups, every other position '0'.
C1_UniqueMatchMask ==
    (Called /\ Cardinality(Matching(regex_vec, line)) = 1) =>
        LET i == Least(Matching(regex_vec, line))
        IN  /\ Result.ok
            /\ Result.idx = i
            /\ Len(Result.msk) = Len(line)
            /\ \A p \in 0..(Len(line) - 1) :
                  Result.msk[p + 1] =
                      IF p \in SpanUnion(regex_vec[i + 1], line) THEN "1" ELSE "0"

\* a unique match whose mask has static and variable positions, through a
\* template with a group that took no part in the match
C1_Witness ==
    /\ Called /\ Cardinality(Matching(regex_vec, line)) = 1
    /\ \E p, q \in 1..Len(line) : Result.msk[p] = "1" /\ Result.msk[q] = "0"
    /\ None \in {captures(regex_vec[Result.idx + 1], line).caps[g] :
                    g \in 1..Len(captures(regex_vec[Result.idx + 1], line).caps)}

\* C2 as stated: when two or more templates fully match, match_regex never
\* returns Ok and the double-match failure names all the matching indices.
C2_NamesAllMatching ==
    (Called /\ Cardinality(Matching(regex_vec, line)) >= 2) =>
        /\ ~Result.ok
        /\ Result.err = "double match"
        /\ {Result.named[n] : n \in 1..Len(Result.named)} = Matching(regex_vec, line)

\* C2 as the code has it: never Ok, and the failure names the two lowest
\* matching indices, in order; the scan ends at the second match.
C2_NamesFirstTwoMatching ==
    (Called /\ Cardinality(Matching(regex_vec, line)) >= 2) =>
        LET first == Least(Matching(regex_vec, line))
            second == Least(Matching(regex_vec, line) \ {first})
        IN  /\ ~Result.ok
            /\ Result.err = "double match"
            /\ Result.named = <<first, second>>

\* three templates match and the first matching one is not the first of the bank
C2_Witness ==
    /\ Called /\ Cardinality(Matching(regex_vec, line)) >= 3
    /\ ~Result.ok /\ Len(Result.named) = 2

\* C12: when no template of the bank fully matches the line (the empty bank
\* included), match_regex fails with the no-match error: it is neither Ok nor
\* the double-match error, and it names no template.
C12_NoMatchFailure ==
    (Called /\ Matching(regex_vec, line) = {}) =>
        /\ ~Result.ok
        /\ Result.err = "No match found"
        /\ Result.err # "double match"
        /\ Result.named = <<>>

\* a full bank of templates none of which matches a line of full length, some
\* of them matching a proper prefix of it
C12_Witness ==
    /\ Called /\ Matching(regex_vec, line) = {}
    /\ Len(regex_vec) = MaxBank /\ Len(line) = MaxLen
    /\ \E i \in 1..Len(regex_vec) : is_match(regex_vec[i], SubSeq(line, 1, MaxLen - 1))
    /\ ~Result.ok

(***************************************************************************)
(* The worker pool.                                                        *)
(*                                                                         *)
(* The queues are those of the lockfree crate.  spmc: one Sender, Receiver *)
(* handles that share one queue; send fails (NoRecv) once every Receiver   *)
(* handle is dropped; recv takes the oldest message, or answers NoMessage  *)
(* on an empty queue whose Sender lives and NoSender on an empty queue     *)
(* whose Sender is dropped.  mpsc: Sender handles, one Receiver; recv      *)
(* answers NoSender on an empty queue once every Sender handle is dropped. *)
(* A recv that answers NoMessage changes nothing and the caller retries:   *)
(* it is a stuttering step.  The ThreadPoolOutput is never dropped before  *)
(* its iterator has ended, so a worker's tx.send does not fail.            *)
(***************************************************************************)
PoolBanks ==
    { << <<Lit("a", FALSE), Plus(Digit, TRUE)>>,        \* 0: a(\d+)
         <<Opt("a", TRUE), Plus(Digit, TRUE)>> >>,      \* 1: (a)?(\d+)
      << <<Opt("a", TRUE)>>,                            \* 0: (a)?
         <<Lit("a", FALSE), Plus(Digit, TRUE)>> >> }    \* 1: a(\d+)

\* with the first bank "1" matches template 1 alone (mask 1) and "a1" matches
\* both; with the second bank "1" matches no template and "a1" matches
\* template 1 alone (mask 01)
PoolMessages == { <<"1">>, <<"a", "1">> }

Parse(msg, id) == [type |-> "Parse", msg |-> msg, id |-> id]
EndOfStream == [type |-> "EndOfStream", msg |-> <<>>, id |-> 0]
NoReq == [type |-> "none", msg |-> <<>>, id |-> 0]

\* idx as u16 (lib.rs 122)
AsU16(i) == i % 65536

Response(msg, msk, idx, id) == [msg |-> msg, msk |-> msk, idx |-> AsU16(idx), id |-> id]

InitPool ==
    /\ regex_vec \in PoolBanks
    /\ filler_count = 0
    /\ worker_count \in 0..MaxWorkers
    /\ join_handles = <<>> /\ input_open = FALSE
    /\ i_receivers = 0 /\ inq = <<>> /\ o_senders = 0 /\ outq = <<>>
    /\ wpc = <<>> /\ wreq = <<>> /\ wlog = <<>>
    /\ ctl_pc = "new" /\ eos_k = 0 /\ join_j = 0 /\ panic_msg = ""
    /\ submitted = <<>> /\ sub_before_eos = 0 /\ eos_calls = 0 /\ misuse = {}
    /\ yielded = <<>> /\ it_ends = 0 /\ errlog = <<>>
    /\ line = <<>> /\ outcome = <<>>
    /\ MainIdle

matchVars == <<regex_vec, line, outcome, filler_count>>

\* the handles of a channel end left when start_thread_pool returns: one clone
\* per worker; the original (i_rx, o_tx) is a local and is dropped at the return
HandlesAtReturn(n) == n

\* lib.rs 86-108
StartThreadPool ==
    /\ ctl_pc = "new"
    /\ join_handles' = [i \in 1..worker_count |-> i]
    /\ wpc' = [i \in 1..worker_count |-> "recv"]
    /\ wreq' = [i \in 1..worker_count |-> NoReq]
    /\ wlog' = [i \in 1..worker_count |-> <<>>]
    /\ i_receivers' = HandlesAtReturn(worker_count)
    /\ o_senders' = HandlesAtReturn(worker_count)
    /\ input_open' = TRUE
    /\ ctl_pc' = "idle"
    /\ UNCHANGED <<worker_count, inq, outq, eos_k, join_j, panic_msg, submitted,
                   sub_before_eos, eos_calls, misuse, yielded, it_ends, errlog>>
    /\ UNCHANGED matchVars

\* spmc::Sender::send succeeds while some Receiver handle lives
SendOk(receivers) == receivers > 0

\* a queue that hands out the newest message first
EnqueueFront(q, req) == <<req>> \o q

\* spmc::Sender::send that succeeds: the message goes to the back of the queue
Enqueue(q, req) == Append(q, req)

\* .expect(msg) on a failed send: the calling thread panics, and the unwinding
\* drops the ThreadPoolInput it owns
ControllerPanics(msg) ==
    /\ ctl_pc' = "panicked"
    /\ panic_msg' = msg
    /\ input_open' = FALSE

\* lib.rs 43-45
Submit(msg) ==
    /\ ctl_pc = "idle"
    /\ Len(submitted) < MaxSubmit
    /\ misuse' = IF eos_calls > 0 THEN misuse \cup {"submit after end_of_stream"} ELSE misuse
    /\ IF SendOk(i_receivers)
       THEN /\ inq' = Enqueue(inq, Parse(msg, Len(submitted) + 1))
            /\ submitted' = Append(submitted, msg)
            /\ sub_before_eos' = IF eos_calls = 0 THEN sub_before_eos + 1 ELSE sub_before_eos
            /\ UNCHANGED <<ctl_pc, panic_msg, input_open>>
       ELSE /\ ControllerPanics("Unable to submit job")
            /\ UNCHANGED <<inq, submitted, sub_before_eos>>
    /\ UNCHANGED <<worker_count, join_handles, i_receivers, o_senders, outq, wpc, wreq,
                   wlog, eos_k, join_j, eos_calls, yielded, it_ends, errlog>>
    /\ UNCHANGED matchVars

\* one token too few
ShutdownCountShort(handles) == Len(handles) - 1

\* one token too many
ShutdownCountLong(handles) == Len(handles) + 1

\* lib.rs 48: the bound of the loop of end_of_stream
ShutdownCount(handles) == Len(handles)

\* lib.rs 47: end_of_stream is entered
EndOfStreamCall ==
    /\ ctl_pc = "idle"
    /\ eos_calls < MaxEos
    /\ ctl_pc' = "eos"
    /\ eos_k' = 0
    /\ eos_calls' = eos_calls + 1
    /\ misuse' = IF eos_calls > 0 THEN misuse \cup {"second end_of_stream"} ELSE misuse
    /\ UNCHANGED <<worker_count, join_handles, input_open, i_receivers, inq, o_senders,
                   outq, wpc, wreq, wlog, join_j, panic_msg, submitted, sub_before_eos,
                   yielded, it_ends, errlog>>
    /\ UNCHANGED matchVars

\* lib.rs 48-50: one turn of the loop
EndOfStreamSend ==
    /\ ctl_pc = "eos"
    /\ eos_k < ShutdownCount(join_handles)
    /\ IF SendOk(i_receivers)
       THEN /\ inq' = Enqueue(inq, EndOfStream)
            /\ eos_k' = eos_k + 1
            /\ UNCHANGED <<ctl_pc, panic_msg, input_open>>
       ELSE /\ ControllerPanics("Unable to send termination request")
            /\ UNCHANGED <<inq, eos_k>>
    /\ UNCHANGED <<worker_count, join_handles, i_receivers, o_senders, outq, wpc, wreq,
                   wlog, join_j, submitted, sub_before_eos, eos_calls, misuse, yielded,
                   it_ends, errlog>>
    /\ UNCHANGED matchVars
    /\ UNCHANGED mainVars

\* lib.rs 51: end_of_stream returns
EndOfStreamReturn ==
    /\ ctl_pc = "eos"
    /\ eos_k >= ShutdownCount(join_handles)
    /\ ctl_pc' = "idle"
    /\ UNCHANGED <<worker_count, join_handles, input_open, i_receivers, inq, o_senders,
                   outq, wpc, wreq, wlog, eos_k, join_j, panic_msg, submitted,
                   sub_before_eos, eos_calls, misuse, yielded, it_ends, errlog>>
    /\ UNCHANGED matchVars
    /\ UNCHANGED mainVars

\* lib.rs 53: join is entered; self is moved in and lives until join returns
JoinCall ==
    /\ ctl_pc = "idle"
    /\ ctl_pc' = "join"
    /\ join_j' = 1
    /\ misuse' = IF eos_calls = 0 THEN misuse \cup {"join without end_of_stream"} ELSE misuse
    /\ UNCHANGED <<worker_count, join_handles, input_open, i_receivers, inq, o_senders,
                   outq, wpc, wreq, wlog, eos_k, panic_msg, submitted, sub_before_eos,
                   eos_calls, yielded, it_ends, errlog>>
    /\ UNCHANGED matchVars

\* lib.rs 54-57: worker.join() returns once the thread has ended, Err if it panicked
JoinWorker ==
    /\ ctl_pc = "join"
    /\ join_j <= Len(join_handles)
    /\ wpc[join_handles[join_j]] \in {"exited", "panicked"}
    /\ IF wpc[join_handles[join_j]] = "exited"
       THEN /\ join_j' = join_j + 1
            /\ UNCHANGED <<ctl_pc, panic_msg, input_open>>
       ELSE /\ ControllerPanics("Unable to join the thread")
            /\ UNCHANGED join_j
    /\ UNCHANGED <<worker_count, join_handles, i_receivers, inq, o_senders, outq, wpc,
                   wreq, wlog, eos_k, submitted, sub_before_eos, eos_calls, misuse,
                   yielded, it_ends, errlog>>
    /\ UNCHANGED matchVars
    /\ UNCHANGED mainVars

\* lib.rs 58: join returns and drops what is left of self: the Sender
JoinReturn ==
    /\ ctl_pc = "join"
    /\ join_j > Len(join_handles)
    /\ ctl_pc' = "joined"
    /\ input_open' = FALSE
    /\ UNCHANGED <<worker_count, join_handles, i_receivers, inq, o_senders, outq, wpc,
                   wreq, wlog, eos_k, join_j, panic_msg, submitted, sub_before_eos,
                   eos_calls, misuse, yielded, it_ends, errlog>>
    /\ UNCHANGED matchVars
    /\ UNCHANGED mainVars

\* the owner lets go of the ThreadPoolInput without join (it goes out of scope)
DropInput ==
    /\ ctl_pc = "idle"
    /\ ctl_pc' = "dropped"
    /\ input_open' = FALSE
    /\ misuse' = misuse \cup {"dropped without join"}
    /\ UNCHANGED <<worker_count, join_handles, i_receivers, inq, o_senders, outq, wpc,
                   wreq, wlog, eos_k, join_j, panic_msg, submitted, sub_before_eos,
                   eos_calls, yielded, it_ends, errlog>>
    /\ UNCHANGED matchVars
    /\ UNCHANGED mainVars

(***************************************************************************)
(* worker_loop (lib.rs 110-135).                                           *)
(***************************************************************************)
Workers == 1..Len(wpc)

\* the arms of lib.rs 130 and 131 taken for each other
WorkerRecvSwapped(q, open) ==
    IF q # <<>> THEN "Ok" ELSE IF open THEN "NoSender" ELSE "NoMessage"

\* what rx.recv() answers (lib.rs 115) on the queue q whose Sender is open or not
WorkerRecv(q, open) ==
    IF q # <<>> THEN "Ok" ELSE IF open THEN "NoMessage" ELSE "NoSender"

\* a recv that leaves the message in the queue
AfterRecvPeek(q) == q

\* the rest of the queue after a successful recv: the message is taken out
AfterRecv(q) == Tail(q)

\* the thread ends (return or unwinding): its rx and tx are dropped
ThreadEnds ==
    /\ i_receivers' = i_receivers - 1
    /\ o_senders' = o_senders - 1

\* lib.rs 115-116: Ok(Request::Parse(msg))
WorkerRecvParse(w) ==
    /\ wpc[w] = "recv"
    /\ WorkerRecv(inq, input_open) = "Ok"
    /\ Head(inq).type = "Parse"
    /\ inq' = AfterRecv(inq)
    /\ wreq' = [wreq EXCEPT ![w] = Head(inq)]
    /\ wlog' = [wlog EXCEPT ![w] = Append(@, Head(inq).id)]
    /\ wpc' = [wpc EXCEPT ![w] = "parse"]
    /\ UNCHANGED <<worker_count, join_handles, input_open, i_receivers, o_senders, outq,
                   ctl_pc, eos_k, join_j, panic_msg, submitted, sub_before_eos,
                   eos_calls, misuse, yielded, it_ends, errlog>>
    /\ UNCHANGED matchVars
    /\ UNCHANGED mainVars

\* a failed match that sends a Response all the same
SendResponseAlways(q, req, res) ==
    Append(q, Response(req.msg, Repeat("0", Len(req.msg)), 0, req.id))

\* a Response that overtakes the Responses waiting in the queue
SendResponseFront(q, req, res) ==
    IF res.ok THEN <<Response(req.msg, res.msk, res.idx, req.id)>> \o q ELSE q

\* lib.rs 118-125: Ok((idx, msk)) => tx.send(Response {..})
SendResponse(q, req, res) ==
    IF res.ok THEN Append(q, Response(req.msg, res.msk, res.idx, req.id)) ELSE q

\* a failed match that is dropped without its log line
LogFailureNever(log, req, res) == log

\* lib.rs 126: Err(err) => error!("{}", err)
LogFailure(log, req, res) ==
    IF res.ok THEN log ELSE Append(log, req.id)

\* a worker whose mask outlives the call: from its second request on, the
\* scan starts on the mask the last call left behind
WorkerParseCarriesMask(w) ==
    /\ wpc[w] = "parse"
    /\ LET msg == wreq[w].msg
           res == ScanFrom(regex_vec, msg, 1, -1,
                           Repeat(IF Len(wlog[w]) > 1 THEN "1" ELSE "0", Len(msg)))
       IN  /\ outq' = SendResponse(outq, wreq[w], res)
           /\ errlog' = LogFailure(errlog, wreq[w], res)
    /\ wreq' = [wreq EXCEPT ![w] = NoReq]
    /\ wpc' = [wpc EXCEPT ![w] = "recv"]
    /\ UNCHANGED <<worker_count, join_handles, input_open, i_receivers, inq, o_senders,
                   wlog, ctl_pc, eos_k, join_j, panic_msg, submitted, sub_before_eos,
                   eos_calls, misuse, yielded, it_ends>>
    /\ UNCHANGED matchVars
    /\ UNCHANGED mainVars

\* lib.rs 117-127: the match, then the Response is sent or the failure logged
WorkerParse(w) ==
    /\ wpc[w] = "parse"
    /\ LET res == match_regex(regex_vec, wreq[w].msg)
       IN  /\ outq' = SendResponse(outq, wreq[w], res)
           /\ errlog' = LogFailure(errlog, wreq[w], res)
    /\ wreq' = [wreq EXCEPT ![w] = NoReq]
    /\ wpc' = [wpc EXCEPT ![w] = "recv"]
    /\ UNCHANGED <<worker_count, join_handles, input_open, i_receivers, inq, o_senders,
                   wlog, ctl_pc, eos_k, join_j, panic_msg, submitted, sub_before_eos,
                   eos_calls, misuse, yielded, it_ends>>
    /\ UNCHANGED matchVars
    /\ UNCHANGED mainVars

\* a worker that takes its Shutdown request and goes on with its loop
WorkerRecvEndOfStreamGoesOn(w) ==
    /\ wpc[w] = "recv"
    /\ WorkerRecv(inq, input_open) = "Ok"
    /\ Head(inq).type = "EndOfStream"
    /\ inq' = AfterRecv(inq)
    /\ wlog' = [wlog EXCEPT ![w] = Append(@, Head(inq).id)]
    /\ UNCHANGED <<worker_count, join_handles, input_open, i_receivers, o_senders, outq,
                   wpc, wreq, ctl_pc, eos_k, join_j, panic_msg, submitted, sub_before_eos,
                   eos_calls, misuse, yielded, it_ends, errlog>>
    /\ UNCHANGED matchVars
    /\ UNCHANGED mainVars

\* lib.rs 129, 134: Ok(Request::EndOfStream) => break; the thread returns its name
WorkerRecvEndOfStream(w) ==
    /\ wpc[w] = "recv"
    /\ WorkerRecv(inq, input_open) = "Ok"
    /\ Head(inq).type = "EndOfStream"
    /\ inq' = AfterRecv(inq)
    /\ wlog' = [wlog EXCEPT ![w] = Append(@, Head(inq).id)]
    /\ wpc' = [wpc EXCEPT ![w] = "exited"]
    /\ ThreadEnds
    /\ UNCHANGED <<worker_count, join_handles, input_open, outq, wreq,
                   ctl_pc, eos_k, join_j, panic_msg, submitted, sub_before_eos,
                   eos_calls, misuse, yielded, it_ends, errlog>>
    /\ UNCHANGED matchVars
    /\ UNCHANGED mainVars

\* lib.rs 131: Err(RecvErr::NoSender) => panic!; a panic unwinds the thread it
\* happens in (Rust's default strategy) and the other threads run on
WorkerRecvNoSender(w) ==
    /\ wpc[w] = "recv"
    /\ WorkerRecv(inq, input_open) = "NoSender"
    /\ wpc' = [wpc EXCEPT ![w] = "panicked"]
    /\ ThreadEnds
    /\ UNCHANGED <<worker_count, join_handles, input_open, inq, outq, wreq, wlog,
                   ctl_pc, eos_k, join_j, panic_msg, submitted, sub_before_eos,
                   eos_calls, misuse, yielded, it_ends, errlog>>
    /\ UNCHANGED matchVars
    /\ UNCHANGED mainVars

(***************************************************************************)
(* ThreadPoolOutputIter::next (lib.rs 75-83).                              *)
(***************************************************************************)
\* an empty queue taken for the end, whoever may still send
IterRecvEarly(q, senders) ==
    IF q # <<>> THEN "Ok" ELSE "NoSender"

\* what output_receiver.recv() answers (lib.rs 77)
IterRecv(q, senders) ==
    IF q # <<>> THEN "Ok" ELSE IF senders > 0 THEN "NoMessage" ELSE "NoSender"

\* lib.rs 78: Ok(res) => return Some(res)
IterNextSome ==
    /\ ctl_pc # "new"
    /\ IterRecv(outq, o_senders) = "Ok"
    /\ yielded' = Append(yielded, Head(outq))
    /\ outq' = Tail(outq)
    /\ UNCHANGED <<worker_count, join_handles, input_open, i_receivers, inq, o_senders,
                   wpc, wreq, wlog, ctl_pc, eos_k, join_j, panic_msg, submitted,
                   sub_before_eos, eos_calls, misuse, it_ends, errlog>>
    /\ UNCHANGED matchVars
    /\ UNCHANGED mainVars

\* lib.rs 80: Err(RecvErr::NoSender) => return None
IterNextNone ==
    /\ ctl_pc # "new"
    /\ it_ends < MaxEndCalls
    /\ IterRecv(outq, o_senders) = "NoSender"
    /\ it_ends' = it_ends + 1
    /\ UNCHANGED <<worker_count, join_handles, input_open, i_receivers, inq, o_senders,
                   outq, wpc, wreq, wlog, ctl_pc, eos_k, join_j, panic_msg, submitted,
                   sub_before_eos, eos_calls, misuse, yielded, errlog>>
    /\ UNCHANGED matchVars
    /\ UNCHANGED mainVars

(***************************************************************************)
(* The pool under any caller: the owner of the ThreadPoolInput may call    *)
(* submit, end_of_stream and join in any order, or drop it.  The calls     *)
(* leave the caller's own variables to the caller.                         *)
(***************************************************************************)
Next ==
    \/ StartThreadPool /\ UNCHANGED mainVars
    \/ \E msg \in PoolMessages : Submit(msg) /\ UNCHANGED mainVars
    \/ EndOfStreamCall /\ UNCHANGED mainVars
    \/ EndOfStreamSend
    \/ EndOfStreamReturn
    \/ JoinCall /\ UNCHANGED mainVars
    \/ JoinWorker
    \/ JoinReturn
    \/ DropInput
    \/ \E w \in Workers : WorkerRecvParse(w)
    \/ \E w \in Workers : WorkerParse(w)
    \/ \E w \in Workers : WorkerRecvEndOfStream(w)
    \/ \E w \in Workers : WorkerRecvNoSender(w)
    \/ IterNextSome
    \/ IterNextNone

Spec == InitPool /\ [][Next]_vars

(***************************************************************************)
(* The pool under a caller that keeps the shutdown protocol, as main does: *)
(* submit any number of times, then end_of_stream once, then join.  The    *)
(* Sender then lives until join returns, and the NoSender arm of the       *)
(* worker is never taken (claim C9).                                       *)
(***************************************************************************)
ProtocolSubmit(msg) ==
    /\ eos_calls = 0
    /\ Submit(msg)
    /\ UNCHANGED mainVars

ProtocolEndOfStream ==
    /\ eos_calls = 0
    /\ EndOfStreamCall
    /\ UNCHANGED mainVars

ProtocolJoin ==
    /\ eos_calls = 1
    /\ JoinCall
    /\ UNCHANGED mainVars

NextProtocol ==
    \/ StartThreadPool /\ UNCHANGED mainVars
    \/ \E msg \in PoolMessages : ProtocolSubmit(msg)
    \/ ProtocolEndOfStream
    \/ EndOfStreamSend
    \/ EndOfStreamReturn
    \/ ProtocolJoin
    \/ JoinWorker
    \/ JoinReturn
    \/ \E w \in Workers : WorkerRecvParse(w)
    \/ \E w \in Workers : WorkerParse(w)
    \/ \E w \in Workers : WorkerRecvEndOfStream(w)
    \/ IterNextSome
    \/ IterNextNone

SpecProtocol == InitPool /\ [][NextProtocol]_vars

(***************************************************************************)
(* Scheduling: the operating system runs every thread that can take a step *)
(* (the workers, the consumer that pulls the iterator), and a call of      *)
(* end_of_stream or join that has started goes on.  Whether the owner      *)
(* calls submit, end_of_stream or join at all is up to the owner.          *)
(***************************************************************************)
WorkerRecvStep(w) ==
    /\ w \in Workers
    /\ \/ WorkerRecvParse(w)
       \/ WorkerRecvEndOfStream(w)
       \/ WorkerRecvNoSender(w)

\* the match of worker w ends and its outcome is handled: the step of Next
\* that takes w from "parse" back to "recv" is WorkerParse(w)
WorkerParseEnds(w) ==
    /\ w \in Workers
    /\ wpc[w] = "parse"
    /\ wpc' = [wpc EXCEPT ![w] = "recv"]

FairSpec ==
    /\ Spec
    /\ WF_vars(EndOfStreamSend)
    /\ WF_vars(EndOfStreamReturn)
    /\ WF_vars(JoinWorker)
    /\ WF_vars(JoinReturn)
    /\ \A w \in 1..MaxWorkers : WF_vars(WorkerRecvStep(w)) /\ WF_wpc(WorkerParseEnds(w))
    /\ WF_vars(IterNextSome)
    /\ WF_vars(IterNextNone)

(***************************************************************************)
(* main (main.rs 10-87): the main thread starts the pool, hands pool_output *)
(* to the writer thread, runs the dispatcher loop over the extracted       *)
(* messages, calls end_of_stream, joins the writer thread and joins the    *)
(* workers.  The workers run as in the pool above; their NoSender arm is   *)
(* left out here, main keeping pool_input alive until join returns.  The   *)
(* counters crawled_lines and distributed_lines are u32: a run of MaxCrawl *)
(* messages stays far inside their range.                                  *)
(***************************************************************************)
\* main.rs 8
WORKER_COUNT == 4

InitMain ==
    /\ regex_vec \in PoolBanks
    /\ filler_count = 0
    /\ worker_count = WORKER_COUNT
    /\ join_handles = <<>> /\ input_open = FALSE
    /\ i_receivers = 0 /\ inq = <<>> /\ o_senders = 0 /\ outq = <<>>
    /\ wpc = <<>> /\ wreq = <<>> /\ wlog = <<>>
    /\ ctl_pc = "new" /\ eos_k = 0 /\ join_j = 0 /\ panic_msg = ""
    /\ submitted = <<>> /\ sub_before_eos = 0 /\ eos_calls = 0 /\ misuse = {}
    /\ yielded = <<>> /\ it_ends = 0 /\ errlog = <<>>
    /\ line = <<>> /\ outcome = <<>>
    /\ loglines \in SeqsUpTo(PoolMessages, MaxCrawl)
    /\ cursor = 0 /\ message_set = {}
    /\ crawled_lines = 0 /\ distributed_lines = 0 /\ main_pc = "start"

\* main.rs 32-39: start_thread_pool(regex_vec, WORKER_COUNT)
MainStartThreadPool ==
    /\ main_pc = "start"
    /\ StartThreadPool
    /\ main_pc' = "loop"
    /\ UNCHANGED <<loglines, cursor, message_set, crawled_lines, distributed_lines>>

\* a set that forgets what it is given
InsertMessageNever(set, message) == set

\* main.rs 68: message_set.insert(message.clone())
InsertMessage(set, message) == set \cup {message}

\* main.rs 61-67: the loop takes a message it has seen before: continue
MainCrawlSeen ==
    /\ main_pc = "loop"
    /\ cursor < Len(loglines)
    /\ loglines[cursor + 1] \in message_set
    /\ cursor' = cursor + 1
    /\ crawled_lines' = crawled_lines + 1
    /\ UNCHANGED <<loglines, message_set, distributed_lines, main_pc>>
    /\ UNCHANGED poolVars
    /\ UNCHANGED matchVars

\* main.rs 61-71: the loop takes a new message: insert, submit, count
MainCrawlSubmit ==
    /\ main_pc = "loop"
    /\ cursor < Len(loglines)
    /\ loglines[cursor + 1] \notin message_set
    /\ cursor' = cursor + 1
    /\ crawled_lines' = crawled_lines + 1
    /\ message_set' = InsertMessage(message_set, loglines[cursor + 1])
    /\ Submit(loglines[cursor + 1])
    /\ IF ctl_pc' = "panicked"
       THEN main_pc' = "panicked" /\ UNCHANGED distributed_lines
       ELSE main_pc' = "loop" /\ distributed_lines' = distributed_lines + 1
    /\ UNCHANGED loglines

\* main.rs 78: the loop is over; pool_input.end_of_stream() is entered
MainEndOfStream ==
    /\ main_pc = "loop"
    /\ cursor = Len(loglines)
    /\ EndOfStreamCall
    /\ main_pc' = "eos"
    /\ UNCHANGED <<loglines, cursor, message_set, crawled_lines, distributed_lines>>

\* main.rs 47: the writer thread's for loop takes a Response
WriterNextSome ==
    /\ it_ends = 0
    /\ IterNextSome

\* main.rs 47, 51-52: the for loop ends at the first None; the thread returns
WriterNextNone ==
    /\ it_ends = 0
    /\ IterNextNone

\* main.rs 82: writer_thread.join() returns once the writer thread has ended
MainJoinWriter ==
    /\ main_pc = "eos"
    /\ ctl_pc = "idle"
    /\ it_ends > 0
    /\ main_pc' = "join"
    /\ UNCHANGED <<loglines, cursor, message_set, crawled_lines, distributed_lines>>
    /\ UNCHANGED poolVars
    /\ UNCHANGED matchVars

\* main.rs 86: pool_input.join() is entered
MainJoin ==
    /\ main_pc = "join"
    /\ JoinCall
    /\ main_pc' = "joining"
    /\ UNCHANGED <<loglines, cursor, message_set, crawled_lines, distributed_lines>>

NextMain ==
    \/ MainStartThreadPool
    \/ MainCrawlSeen
    \/ MainCrawlSubmit
    \/ MainEndOfStream
    \/ EndOfStreamSend
    \/ EndOfStreamReturn
    \/ MainJoinWriter
    \/ MainJoin
    \/ JoinWorker
    \/ JoinReturn
    \/ \E w \in Workers : WorkerRecvParse(w)
    \/ \E w \in Workers : WorkerParse(w)
    \/ \E w \in Workers : WorkerRecvEndOfStream(w)
    \/ WriterNextSome
    \/ WriterNextNone

SpecMain == InitMain /\ [][NextMain]_vars

(***************************************************************************)
(* Banks of more templates than a u16 counts.  load_regex puts no limit on *)
(* the number of lines of the regex file, and the index match_regex        *)
(* returns is an isize, while Response.idx is a u16 (lib.rs 20, 122).      *)
(* A wide bank is filler_count copies of a template that matches no line   *)
(* of the model (the character b is in no line) followed by the templates  *)
(* of regex_vec.  The scan of match_regex over it is taken up after the    *)
(* fillers, where its locals are still m = -1 and the mask of zeros; then  *)
(* the worker's arm for the outcome is applied.                            *)
(***************************************************************************)
U16Range == 65536    \* the values of a u16: 0 .. 65535

Filler == <<Lit("b", FALSE)>>

WideTails ==
    { << <<Plus(Digit, TRUE)>> >>,                                       \* (\d+)
      << <<Lit("a", FALSE), Plus(Digit, TRUE)>>, <<Plus(Digit, TRUE)>> >>,  \* a(\d+), (\d+)
      << <<Plus(Digit, TRUE)>>, <<Plus(Word, TRUE)>> >> }                 \* (\d+), (\w+)

\* the whole bank: what load_regex returns for the regex file
WideBank(n, tail) == [k \in 1..(n + Len(tail)) |-> IF k <= n THEN Filler ELSE tail[k - n]]

InitWide ==
    /\ regex_vec \in WideTails
    /\ filler_count \in {U16Range - 1, U16Range}
    /\ line \in Lines
    /\ outcome = <<>>
    /\ PoolIdle
    /\ MainIdle

\* lib.rs 117: match_regex(&regex_vec, msg.as_str())
WideMatchCall ==
    /\ outcome = <<>>
    /\ outcome' = <<ScanFrom(WideBank(filler_count, regex_vec), line, filler_count + 1, -1,
                             Repeat("0", Len(line)))>>
    /\ UNCHANGED <<regex_vec, line, filler_count>>
    /\ UNCHANGED poolVars
    /\ UNCHANGED mainVars

\* lib.rs 118-127: the Response is sent or the failure logged
WideWorkerParse ==
    /\ outcome # <<>>
    /\ outq = <<>> /\ errlog = <<>>
    /\ outq' = SendResponse(outq, Parse(line, 1), outcome[1])
    /\ errlog' = LogFailure(errlog, Parse(line, 1), outcome[1])
    /\ UNCHANGED <<worker_count, join_handles, input_open, i_receivers, inq, o_senders,
                   wpc, wreq, wlog, ctl_pc, eos_k, join_j, panic_msg, submitted,
                   sub_before_eos, eos_calls, misuse, yielded, it_ends>>
    /\ UNCHANGED matchVars
    /\ UNCHANGED mainVars

NextWide ==
    \/ WideMatchCall
    \/ WideWorkerParse

SpecWide == InitWide /\ [][NextWide]_vars

(***************************************************************************)
(* Claims about the pool.                                                  *)
(***************************************************************************)
Count(seq, x) == Cardinality({i \in 1..Len(seq) : seq[i] = x})
Ids(seq) == [i \in 1..Len(seq) |-> seq[i].id]
CorrectUse == misuse = {}
AllExited == \A w \in Workers : wpc[w] = "exited"
UniqueMatch(msg) == Cardinality(Matching(regex_vec, msg)) = 1

\* C3 as stated: for any pool size and any submit calls followed by one
\* end_of_stream and join, no call of the sequence fails, and under fair
\* scheduling the iterator reaches end-of-sequence after end_of_stream (before
\* join is even called, as in main) and join returns with every worker exited.
C3_ShutdownCompletes ==
    /\ [](CorrectUse => ctl_pc # "panicked")
    /\ ((CorrectUse /\ eos_calls = 1) ~> (~CorrectUse \/ it_ends > 0))
    /\ ((CorrectUse /\ ctl_pc = "join") ~> (ctl_pc = "joined" /\ AllExited))

\* C3 for a pool of at least one worker (the part of C3 that the code keeps)
C3_ShutdownCompletesWithWorkers ==
    /\ [](CorrectUse /\ worker_count >= 1 => ctl_pc # "panicked")
    /\ ((CorrectUse /\ eos_calls = 1) ~> (~CorrectUse \/ it_ends > 0))
    /\ ((CorrectUse /\ ctl_pc = "join") ~> (ctl_pc = "joined" /\ AllExited))

\* C4: at most one Response per submitted message, none for a message whose
\* match failed, one for every message with a unique match once the iterator
\* has ended; a Request is received by one worker only and a Response is
\* returned by one pull only.
C4_ExactlyOnce ==
    /\ \A id \in 1..Len(submitted) :
          /\ Count(Ids(yielded), id) + Count(Ids(outq), id) <= 1
          /\ Cardinality({w \in Workers : Count(wlog[w], id) > 0}) <= 1
          /\ \A w \in Workers : Count(wlog[w], id) <= 1
    /\ \A i \in 1..Len(yielded) :
          /\ yielded[i].id \in 1..Len(submitted)
          /\ yielded[i].msg = submitted[yielded[i].id]
          /\ UniqueMatch(yielded[i].msg)
    /\ it_ends > 0 =>
          \A id \in 1..sub_before_eos :
             /\ Cardinality({w \in Workers : Count(wlog[w], id) = 1}) = 1
             /\ UniqueMatch(submitted[id]) => Count(Ids(yielded), id) = 1

C4_Witness ==
    /\ it_ends > 0 /\ worker_count = 2
    /\ \E i, j \in 1..Len(submitted) :
          /\ UniqueMatch(submitted[i]) /\ ~UniqueMatch(submitted[j])
          /\ Count(wlog[1], i) = 1 /\ Count(wlog[2], j) = 1

\* C5: with at least one worker, once join has returned and the iterator has
\* ended after n submits and one end_of_stream, Responses yielded plus logged
\* drops are n, every message counted once, and the fan-out queue is empty.
C5_Conservation ==
    (CorrectUse /\ worker_count >= 1 /\ ctl_pc = "joined" /\ it_ends > 0) =>
        /\ Len(yielded) + Len(errlog) = Len(submitted)
        /\ \A id \in 1..Len(submitted) : Count(Ids(yielded), id) + Count(errlog, id) = 1
        /\ inq = <<>> /\ outq = <<>>

C5_Witness ==
    /\ CorrectUse /\ worker_count = 2 /\ ctl_pc = "joined" /\ it_ends > 0
    /\ Len(submitted) = MaxSubmit /\ Len(yielded) >= 1 /\ Len(errlog) >= 1

\* the Shutdown requests sent so far: those in the queue and those received
TokensSent ==
    Count([i \in 1..Len(inq) |-> inq[i].type], "EndOfStream")
        + Cardinality(UNION {{<<w, i>> : i \in {j \in 1..Len(wlog[w]) : wlog[w][j] = 0}} :
                               w \in Workers})

\* C6: a call of end_of_stream sends worker_count Shutdown requests; no worker
\* receives two, a worker has left its loop only after receiving one, every
\* worker has received one when join returns, and join without a prior
\* end_of_stream stays blocked on its first worker when there is a worker.
C6_OneTokenPerWorker ==
    /\ (ctl_pc \notin {"new", "eos", "panicked"}) => TokensSent = eos_calls * worker_count
    /\ \A w \in Workers :
          /\ Count(wlog[w], 0) <= 1
          /\ wpc[w] = "exited" <=> Count(wlog[w], 0) = 1
          /\ wpc[w] = "panicked" => ~input_open
    /\ ctl_pc = "joined" => AllExited
    /\ (eos_calls = 0 /\ worker_count >= 1) =>
          /\ ctl_pc # "joined"
          /\ ctl_pc = "join" => join_j = 1

C6_Witness ==
    /\ ctl_pc = "joined" /\ worker_count = 2 /\ eos_calls = 1 /\ Len(submitted) >= 1
    /\ \A w \in Workers : Count(wlog[w], 0) = 1

\* C7 as stated: before end_of_stream, whatever the pool size, a call of
\* submit does not fail and appends one Parse request with its message.
C7_SubmitAccepted ==
    [][(ctl_pc = "idle" /\ eos_calls = 0
          /\ (submitted' # submitted \/ panic_msg' = "Unable to submit job"))
        => /\ ctl_pc' = "idle" /\ panic_msg' = ""
           /\ Len(submitted') = Len(submitted) + 1
           /\ inq' = Append(inq, Parse(submitted'[Len(submitted')], Len(submitted')))]_vars

\* C8: next() returns None only when every mpsc Sender handle is dropped (every
\* worker has ended, none is left from start_thread_pool) and no Response is
\* left in the queue; after a None, next() yields no Response any more and a
\* further call answers None again.
C8_EndOfSequence ==
    [][/\ it_ends' > it_ends =>
             /\ o_senders = 0 /\ outq = <<>>
             /\ \A w \in Workers : wpc[w] \in {"exited", "panicked"}
       /\ it_ends > 0 =>
             /\ yielded' = yielded /\ it_ends' >= it_ends
             /\ IterRecv(outq', o_senders') = "NoSender"]_vars

C8_Witness ==
    /\ it_ends >= 2 /\ Len(yielded) >= 1 /\ worker_count = 2

\* C9: under correct use of the protocol no worker receives NoSender, and
\* the Sender is alive as long as some worker has not exited.
C9_NoSenderUnreachable ==
    CorrectUse =>
        \A w \in Workers :
           /\ wpc[w] # "panicked"
           /\ wpc[w] # "exited" => input_open

C9_Witness ==
    /\ CorrectUse /\ ctl_pc = "joined" /\ worker_count = 2 /\ Len(submitted) >= 1

\* C10 as stated: a worker that finds the Sender dropped ends the whole run;
\* the iterator does not go on to reach end-of-sequence.
C10_ClosedProducerAborts ==
    (\E w \in Workers : wpc[w] = "panicked") => it_ends = 0

\* the Parse requests worker w has received and is done with, by id
Done(w) == {wlog[w][i] : i \in 1..Len(wlog[w])} \ {0, wreq[w].id}
\* the match of a submission fails: no template or several match its message
Failed(id) == ~UniqueMatch(submitted[id])
Pushed == yielded \o outq

\* C11: a Parse request whose match failed leaves one error line and nothing
\* else: no Response in the fan-in queue or at the consumer, no copy back in
\* the fan-out queue; the worker is back at the top of its loop with no request
\* in hand, as it was when it was spawned (it has ended only by a Shutdown
\* request or by the closed Sender), and every request it received after the
\* failure is handled in its turn.
C11_FailureLeavesWorkerAsBefore ==
    \A w \in Workers :
       /\ \A id \in Done(w) :
             /\ Failed(id) => /\ Count(errlog, id) = 1
                              /\ Count(Ids(Pushed), id) = 0
                              /\ Count(Ids(inq), id) = 0
             /\ ~Failed(id) => Count(errlog, id) = 0 /\ Count(Ids(Pushed), id) = 1
       /\ wpc[w] = "parse" <=> wreq[w] # NoReq
       /\ wpc[w] = "exited" => wlog[w][Len(wlog[w])] = 0
       /\ wpc[w] = "panicked" => ~input_open /\ Count(wlog[w], 0) = 0

\* one worker dropped the first message, answered the second, and left on its
\* Shutdown request
C11_Witness ==
    /\ worker_count = 1 /\ Len(submitted) = 2
    /\ wlog[1] = <<1, 2, 0>> /\ wpc[1] = "exited"
    /\ errlog = <<1>> /\ Ids(yielded) = <<2>>

\* the submissions some worker is done with, and the worker that handled one
AllDone == UNION {Done(w) : w \in Workers}
HandledBy(id) == CHOOSE w \in Workers : id \in Done(w)
ResponseOf(id) == Pushed[CHOOSE i \in 1..Len(Pushed) : Pushed[i].id = id]

C14_ShutdownAfterAllParse ==
    /\ (\E w \in Workers : Count(wlog[w], 0) > 0) =>
          /\ \A k \in 1..Len(inq) : inq[k].type = "Parse" => inq[k].id > sub_before_eos
          /\ \A id \in 1..sub_before_eos :
                Cardinality({w \in Workers : Count(wlog[w], id) = 1}) = 1
    /\ \A w \in Workers :
          wpc[w] = "exited" =>
             /\ wreq[w] = NoReq
             /\ \A i \in 1..Len(wlog[w]) : wlog[w][i] = 0 <=> i = Len(wlog[w])
             /\ \A id \in Done(w) : Count(errlog, id) + Count(Ids(Pushed), id) = 1

\* a worker has left on its Shutdown request after a Parse request while the
\* other worker is still matching the last Parse request
C14_Witness ==
    /\ worker_count = 2 /\ sub_before_eos = 2 /\ eos_calls = 1
    /\ wpc[1] = "exited" /\ Len(wlog[1]) = 2
    /\ wpc[2] = "parse"

PosIn(seq, x) == CHOOSE i \in 1..Len(seq) : seq[i] = x

\* C15: the Responses of one worker are in the fan-in queue, and reach the
\* consumer, in the order in which that worker dequeued their requests; with
\* one worker the Responses are in submission order.  (That another order is
\* reachable with two workers is what the witness shows.)
C15_PerWorkerOrder ==
    /\ \A w \in Workers :
          \A i, j \in 1..Len(Pushed) :
             (i < j /\ Count(wlog[w], Pushed[i].id) = 1 /\ Count(wlog[w], Pushed[j].id) = 1)
                => PosIn(wlog[w], Pushed[i].id) < PosIn(wlog[w], Pushed[j].id)
    /\ worker_count = 1 =>
          \A i, j \in 1..Len(Pushed) : i < j => Pushed[i].id < Pushed[j].id

\* two workers: the consumer gets the second submission before the first
C15_Witness ==
    /\ worker_count = 2
    /\ Ids(yielded) = <<2, 1>>

Ended == {w \in Workers : wpc[w] \in {"exited", "panicked"}}

\* C16: with at least one worker and one call of end_of_stream, no send of
\* the call fails: no worker has received two Shutdown requests, so while the
\* call has sent k tokens at most k workers have ended, and before each of its
\* worker_count sends some worker still holds a Receiver handle.
C16_ShutdownSendsSucceed ==
    (worker_count >= 1 /\ eos_calls = 1) =>
        /\ panic_msg # "Unable to send termination request"
        /\ \A w \in Workers : Count(wlog[w], 0) <= 1
        /\ ctl_pc = "eos" =>
              /\ Cardinality(Ended) <= eos_k
              /\ i_receivers = worker_count - Cardinality(Ended)
              /\ eos_k < worker_count => SendOk(i_receivers)

\* the second token is about to be sent and one worker has already exited on
\* the first
C16_Witness ==
    /\ worker_count = 2 /\ eos_calls = 1 /\ ctl_pc = "eos" /\ eos_k = 1
    /\ Cardinality(Ended) = 1 /\ i_receivers = 1

TokensQueued == Count([i \in 1..Len(inq) |-> inq[i].type], "EndOfStream")
TokensTaken == Cardinality({w \in Workers : Count(wlog[w], 0) > 0})

\* C19: a message submitted after end_of_stream is never received by a
\* worker, never answered and never logged: it stays in the fan-out queue
\* behind the Shutdown requests, or its submit panics, which happens only when
\* no worker is left; the workers take worker_count Shutdown requests at most,
\* so the tokens of a second end_of_stream stay in the queue, or one of its
\* sends panics, again only when no worker is left.
C19_LateRequestsIgnored ==
    /\ \A id \in (sub_before_eos + 1)..Len(submitted) :
          /\ \A w \in Workers : Count(wlog[w], id) = 0
          /\ Count(Ids(Pushed), id) = 0
          /\ Count(errlog, id) = 0
          /\ Count(Ids(inq), id) = 1
          /\ TokensTaken + Count([i \in 1..(PosIn(Ids(inq), id) - 1) |-> inq[i].type],
                                  "EndOfStream") >= worker_count
    /\ TokensTaken <= worker_count
    /\ \A w \in Workers : Count(wlog[w], 0) <= 1
    /\ (eos_calls >= 2 /\ ctl_pc \notin {"eos", "panicked"}) =>
          TokensQueued >= (eos_calls - 1) * worker_count
    /\ panic_msg = "Unable to submit job" => i_receivers = 0 /\ Ended = Workers
    /\ panic_msg = "Unable to send termination request" =>
          i_receivers = 0 /\ Ended = Workers /\ eos_calls >= 2

\* after a second end_of_stream and a late submit, neither of which failed,
\* every worker has exited and the iterator has ended: the late message and
\* the tokens of the second call are still in the fan-out queue
C19_Witness ==
    /\ worker_count = 2 /\ eos_calls = 2 /\ ctl_pc = "idle" /\ panic_msg = ""
    /\ Len(submitted) > sub_before_eos /\ sub_before_eos >= 1
    /\ AllExited /\ it_ends > 0
    /\ TokensQueued = 2 /\ Len(inq) = 2 + Len(submitted) - sub_before_eos

(***************************************************************************)
(* Claims about main (checked under SpecMain).                             *)
(***************************************************************************)
Range(seq) == {seq[i] : i \in 1..Len(seq)}

\* the first occurrences of the messages of seq, in order
RECURSIVE FirstOccurrences(_)
FirstOccurrences(seq) ==
    IF seq = <<>> THEN <<>>
    ELSE LET front == FirstOccurrences(SubSeq(seq, 1, Len(seq) - 1))
         IN  IF seq[Len(seq)] \in Range(front) THEN front ELSE Append(front, seq[Len(seq)])

\* the arm of worker_loop left out of NextMain is never open in main
NoSenderClosedInMain ==
    \A w \in Workers : ~(wpc[w] = "recv" /\ WorkerRecv(inq, input_open) = "NoSender")

\* C17: the messages main has submitted are the first occurrences, in order,
\* of the messages the loop has taken, none of them twice; distributed_lines
\* counts the submit calls and is at most crawled_lines, which counts the
\* messages taken; end_of_stream is called once, when the loop is over, and
\* no submit follows it.
C17_DispatcherDedup ==
    /\ submitted = FirstOccurrences(SubSeq(loglines, 1, cursor))
    /\ \A i, j \in 1..Len(submitted) : i # j => submitted[i] # submitted[j]
    /\ message_set = Range(submitted)
    /\ distributed_lines = Len(submitted)
    /\ crawled_lines = cursor
    /\ distributed_lines <= crawled_lines
    /\ eos_calls <= 1
    /\ eos_calls = 1 <=> main_pc \in {"eos", "join", "joining"}
    /\ eos_calls = 1 => cursor = Len(loglines) /\ sub_before_eos = Len(submitted)
    /\ CorrectUse
    /\ main_pc # "panicked"

\* main has run to its end over three messages of which the third repeats the
\* first
C17_Witness ==
    /\ ctl_pc = "joined" /\ main_pc = "joining"
    /\ Len(loglines) = 3 /\ loglines[1] = loglines[3] /\ loglines[1] # loglines[2]
    /\ submitted = <<loglines[1], loglines[2]>>
    /\ crawled_lines = 3 /\ distributed_lines = 2 /\ eos_calls = 1

(***************************************************************************)
(* Claims about the template index of a Response (checked under SpecWide). *)
(***************************************************************************)
\* the filler matches no line: the scan passes it with its locals untouched
FillerMatchesNothing == \A l \in Lines : ~is_match(Filler, l)

\* the templates of the wide bank that fully match the line, by 0-based
\* index in the bank; none of them is a filler
WideMatching(l) ==
    {filler_count + i : i \in Matching(regex_vec, l)}

\* C18 as stated: whatever the size of the bank, the idx of a Response is the
\* index in the bank of the one template that matches its message.
C18_TemplateIdIsIndex ==
    \A k \in 1..Len(outq) :
       /\ Cardinality(WideMatching(outq[k].msg)) = 1
       /\ outq[k].idx = Least(WideMatching(outq[k].msg))

\* what the code keeps: the idx of a Response is that index modulo 2^16, and
\* is the index itself when the matching template is among the first 2^16
C18_TemplateIdModulo ==
    /\ FillerMatchesNothing
    /\ \A k \in 1..Len(outq) :
          LET i == Least(WideMatching(outq[k].msg))
          IN  /\ Cardinality(WideMatching(outq[k].msg)) = 1
              /\ outq[k].idx = i % U16Range
              /\ i < U16Range => outq[k].idx = i

=============================================================================
